---- MODULE Spec2Model ----
(***************************************************************************)
(* A model of midiroll/roll.py: class MidiFile.  The constructor           *)
(* demultiplexes the messages of a MIDI file into per-channel timelines    *)
(* (get_events), rasterizes them into a piano roll (get_roll) and derives  *)
(* the length of the performance (get_total_ticks, tick2second).           *)
(*                                                                         *)
(* A message is a record with the fields mido gives it: "type", "time"     *)
(* (delta ticks), and by type "channel", "note", "velocity", "control",    *)
(* "value", "program", "tempo".  A message carries a channel exactly when  *)
(* its record has the field "channel".                                     *)
(***************************************************************************)
EXTENDS Integers, Sequences, FiniteSets

VARIABLES
    tracks,           \* mido.MidiFile.tracks: the messages of the file, per track
    ticks_per_beat,   \* mido.MidiFile.ticks_per_beat
    pc,               \* the position in the constructor, "again" after a further
                      \* call of get_roll
    err,              \* the exception that ended the constructor, or "none"
    meta,             \* self.meta
    events,           \* self.events: the non-empty channel timelines
    nch,              \* self.nch
    roll,             \* get_roll's roll, self.roll once returned
    register_note,    \* get_roll's register_note
    register_timbre,  \* get_roll's register_timbre
    idx,              \* get_roll's channel index (enumerate(events))
    mi,               \* position of the next message in the channel, from 1
    time_counter,     \* get_roll's time_counter
    volume,           \* get_roll's volume
    intensity_range,  \* self.intensity_range
    note_range,       \* self.note_range
    length_ticks,     \* self.length_ticks
    length_seconds,   \* self.length_seconds, a fraction <<numerator, denominator>>
                      \* of microseconds
    ticks_per_sec     \* self.ticks_per_sec, a fraction <<numerator, denominator>>
                      \* of ticks per microsecond

vars == <<tracks, ticks_per_beat, pc, err, meta, events, nch, roll, register_note,
          register_timbre, idx, mi, time_counter, volume, intensity_range,
          note_range, length_ticks, length_seconds, ticks_per_sec>>

(***************************************************************************)
(* Program constants.                                                      *)
(***************************************************************************)
sr == 10
max_nch == 16
NumNotes == 128
DefaultTempo == 500000
InitVolume == 100

\* register_note's "no note is on" value, the code's int(-1)
Inactive == <<-1>>

(***************************************************************************)
(* Bounds of the model and the files the inputs are drawn from.  A file    *)
(* holds at most MaxMsgs messages.                                         *)
(*   Spec:       one track, two channels (5 before 0 in the track) playing *)
(*               notes under a main volume;                                *)
(*   SpecPass:   one track, one channel, every kind of message a pass      *)
(*               reads, and a tempo;                                       *)
(*   SpecEvents: two tracks, two channels and meta messages;               *)
(*   SpecRanges: one track, two channels, note_on at the ends of the       *)
(*               ranges of pitch and intensity, and volume changes;        *)
(*   SpecPaint:  as Spec, with note_off of delta 5 (a note on and off in   *)
(*               the same bin) and no control_change.                      *)
(***************************************************************************)
MaxMsgs == 3

Times == {0, 15}
TicksPerBeatValues == {480}

NoteOnMsgs(chs, notes, vels) ==
    {[type |-> "note_on", channel |-> c, note |-> n, velocity |-> v, time |-> t] :
        c \in chs, n \in notes, v \in vels, t \in Times}
NoteOffMsgs(chs, notes, times) ==
    {[type |-> "note_off", channel |-> c, note |-> n, velocity |-> 0, time |-> t] :
        c \in chs, n \in notes, t \in times}
ControlMsgs(chs, ccs, times) ==
    {[type |-> "control_change", channel |-> c, control |-> x[1], value |-> x[2],
      time |-> t] : c \in chs, x \in ccs, t \in times}
ProgramMsgs(chs, times) ==
    {[type |-> "program_change", channel |-> c, program |-> 0, time |-> t] :
        c \in chs, t \in times}
TempoMsgs(tempos) ==
    {[type |-> "set_tempo", tempo |-> x, time |-> 0] : x \in tempos}
UnknownMetaMsgs ==
    {[type |-> "unknown_meta", type_byte |-> 96, time |-> 0]}

SeqsUpTo(S, n) == UNION {[1..m -> S] : m \in 0..n}

\* the pairs of sequences over A and over B of at most n messages in all
PairsUpTo(A, B, n) ==
    UNION {[1..a -> A] \X SeqsUpTo(B, n - a) : a \in 0..n}

NoteMsgs(ch) ==
    NoteOnMsgs({ch}, {1, 60}, {64}) \cup NoteOffMsgs({ch}, {1, 60}, {15})
        \cup ControlMsgs({ch}, {<<7, 100>>}, {25})

Files == {<<x[1] \o x[2]>> : x \in PairsUpTo(NoteMsgs(5), NoteMsgs(0), MaxMsgs)}

PassMsgs ==
    NoteOnMsgs({5}, {60}, {64, 127}) \cup NoteOffMsgs({5}, {60}, Times)
        \cup ControlMsgs({5}, {<<7, 100>>, <<11, 100>>, <<11, 127>>}, {0})
        \cup ProgramMsgs({5}, {15}) \cup TempoMsgs({250000})

PassFiles == {<<t>> : t \in SeqsUpTo(PassMsgs, MaxMsgs)}

EventMsgs ==
    ProgramMsgs({0, 9}, {0, 5}) \cup TempoMsgs({250000, 400000}) \cup UnknownMetaMsgs

EventFiles == {<<x[1], x[2]>> : x \in PairsUpTo(EventMsgs, EventMsgs, MaxMsgs)}

RangeMsgs ==
    {[type |-> "note_on", channel |-> 5, note |-> n, velocity |-> v, time |-> 15] :
        n \in {0, 127}, v \in {1, 127}}
        \cup {[type |-> "note_on", channel |-> 0, note |-> 60, velocity |-> 64, time |-> 15]}
        \cup ControlMsgs({5}, {<<7, 64>>, <<7, 127>>, <<11, 100>>}, {0})

RangeFiles == {<<t>> : t \in SeqsUpTo(RangeMsgs, MaxMsgs)}

PaintMsgs(ch) == NoteOnMsgs({ch}, {1, 60}, {64}) \cup NoteOffMsgs({ch}, {1, 60}, {5})

PaintFiles == {<<x[1] \o x[2]>> : x \in PairsUpTo(PaintMsgs(5), PaintMsgs(0), MaxMsgs)}

(***************************************************************************)
(* get_events                                                              *)
(***************************************************************************)
HasChannel(msg) == "channel" \in DOMAIN msg

\* The messages of all tracks in traversal order (for track ... for msg ...).
RECURSIVE Flatten(_)
Flatten(trs) ==
    IF trs = <<>> THEN <<>> ELSE Head(trs) \o Flatten(Tail(trs))

\* Reverse(trs): the tracks, the last one first
RECURSIVE Reverse(_)
Reverse(trs) == IF trs = <<>> THEN <<>> ELSE Reverse(Tail(trs)) \o <<Head(trs)>>

\* ChannelList traversing the tracks from the last to the first
ChannelListLastTrackFirst(trs, ch) ==
    SelectSeq(Flatten(Reverse(trs)), LAMBDA msg : HasChannel(msg) /\ msg.channel = ch)

\* events[channel].append(msg) over the traversal: the list of one channel.
ChannelList(trs, ch) ==
    SelectSeq(Flatten(trs), LAMBDA msg : HasChannel(msg) /\ msg.channel = ch)

\* MetaOf keeping the first message of a type
RECURSIVE MetaOfFirstWins(_, _)
MetaOfFirstWins(msgs, m) ==
    IF msgs = <<>> THEN m
    ELSE LET msg == Head(msgs)
             m2 == IF HasChannel(msg) \/ msg.type \in DOMAIN m THEN m
                   ELSE [t \in DOMAIN m \cup {msg.type} |->
                            IF t = msg.type THEN msg ELSE m[t]]
         IN MetaOfFirstWins(Tail(msgs), m2)

\* self.meta[msg.type] = msg.dict() over the traversal: a message without a
\* channel is recorded under its type, the last one of a type wins.
RECURSIVE MetaOf(_, _)
MetaOf(msgs, m) ==
    IF msgs = <<>> THEN m
    ELSE LET msg == Head(msgs)
             m2 == IF HasChannel(msg) THEN m
                   ELSE [t \in DOMAIN m \cup {msg.type} |->
                            IF t = msg.type THEN msg ELSE m[t]]
         IN MetaOf(Tail(msgs), m2)

\* FilterEmpty without the filter: the 16 lists as they are
FilterEmptyKeepsAll(lists) == lists

\* list(filter(None, events)): the non-empty lists, in order.
FilterEmpty(lists) == SelectSeq(lists, LAMBDA l : l # <<>>)

GetEventsResult(trs) ==
    FilterEmpty([i \in 1..max_nch |-> ChannelList(trs, i - 1)])

(***************************************************************************)
(* get_tempo, get_total_ticks                                              *)
(***************************************************************************)
GetTempo(m) ==
    IF "set_tempo" \in DOMAIN m /\ "tempo" \in DOMAIN m["set_tempo"]
    THEN m["set_tempo"].tempo
    ELSE DefaultTempo

RECURSIVE SumTime(_)
SumTime(msgs) == IF msgs = <<>> THEN 0 ELSE Head(msgs).time + SumTime(Tail(msgs))

RECURSIVE MaxTicks(_, _, _)
MaxTicks(evs, channel, max_ticks) ==
    IF channel > Len(evs) THEN max_ticks
    ELSE LET ticks == SumTime(evs[channel])
         IN MaxTicks(evs, channel + 1, IF ticks > max_ticks THEN ticks ELSE max_ticks)

\* GetTotalTicks looking at the first channel only
GetTotalTicksOfFirst(evs) == IF evs = <<>> THEN 0 ELSE SumTime(evs[1])

GetTotalTicks(evs) == MaxTicks(evs, 1, 0)

(***************************************************************************)
(* get_roll: the pieces of one pass                                        *)
(***************************************************************************)
\* A value stored in a cell of dtype int8.
Int8(x) == ((x + 128) % 256) - 128

NumBins(ticks) == ticks \div sr

ZeroRoll(n, ticks) ==
    [c \in 0..(n - 1) |-> [p \in 0..(NumNotes - 1) |-> [b \in 0..(NumBins(ticks) - 1) |-> 0]]]

\* PaintRow with the end bin included
PaintRowInclusive(row, a, b, v) ==
    [x \in DOMAIN row |-> IF a <= x /\ x <= b THEN ((v + 128) % 256) - 128 ELSE row[x]]

\* row[a:b] = v
PaintRow(row, a, b, v) ==
    [x \in DOMAIN row |-> IF a <= x /\ x < b THEN Int8(v) ELSE row[x]]

\* row[a:] = v
PaintRowToEnd(row, a, v) ==
    [x \in DOMAIN row |-> IF a <= x THEN Int8(v) ELSE row[x]]

IsCC(msg, control) == msg.type = "control_change" /\ msg.control = control

\* MainVolume taking the value as it is, in 0..127
MainVolumeRaw(vol, msg) ==
    IF msg.type = "control_change" /\ msg.control = 7 THEN msg.value ELSE vol

MainVolume(vol, msg) ==
    IF IsCC(msg, 7) THEN (100 * msg.value) \div 127 ELSE vol

\* Expression scaling the volume by value / 127
ExpressionScaled(vol, msg) ==
    IF msg.type = "control_change" /\ msg.control = 11
    THEN (vol * msg.value) \div 127 ELSE vol

Expression(vol, msg) ==
    IF IsCC(msg, 11) THEN vol * (msg.value \div 127) ELSE vol

\* volume after the control_change branch of a message
VolumeAfter(vol, msg) == Expression(MainVolume(vol, msg), msg)

\* EndTime as the bin in which the message starts
EndTimeOfStart(tc, msg) == tc \div sr

EndTime(tc, msg) == (tc + msg.time) \div sr

\* Intensity of the velocity under the initial volume, whatever the volume is
IntensityIgnoringVolume(vol, msg) == (100 * msg.velocity) \div 127

Intensity(vol, msg) == (vol * msg.velocity) \div 127

\* UpdateRange widening the range by one at each end
UpdateRangeWidening(range, x) == <<range[1] - 1, range[2] + 1>>

\* UpdateRange moving the lower end only
UpdateRangeLowerOnly(range, x) ==
    <<IF range[1] > x THEN x ELSE range[1], range[2]>>

\* if range[0] > x: range[0] = x ; if range[1] < x: range[1] = x
UpdateRange(range, x) ==
    LET lo == IF range[1] > x THEN x ELSE range[1]
        hi == IF range[2] < x THEN x ELSE range[2]
    IN <<lo, hi>>

\* The state one message of a pass reads and writes.
PassState(r, rn, rt, tc, vol, ir, nr) ==
    [roll |-> r, register_note |-> rn, register_timbre |-> rt, time_counter |-> tc,
     volume |-> vol, intensity_range |-> ir, note_range |-> nr, err |-> "none"]

\* if msg.type == "note_on": ...
NoteOn(s, i, msg) ==
    LET note_on_end_time == EndTime(s.time_counter, msg)
        intensity == Intensity(s.volume, msg)
        last == s.register_note[msg.note]
        painted == IF last # Inactive
                   THEN [s.roll EXCEPT ![i][msg.note] =
                            PaintRow(@, last[1], note_on_end_time, last[2])]
                   ELSE s.roll
    IN [s EXCEPT !.roll = painted,
                 !.register_note = [@ EXCEPT ![msg.note] = <<note_on_end_time, intensity>>],
                 !.intensity_range = UpdateRange(@, intensity),
                 !.note_range = UpdateRange(@, msg.note)]

\* if msg.type == "note_off": ...  Unpacking the register's -1 raises TypeError.
NoteOff(s, i, msg) ==
    LET note_off_end_time == EndTime(s.time_counter, msg)
        last == s.register_note[msg.note]
    IN IF last = Inactive
       THEN [s EXCEPT !.err = "TypeError"]
       ELSE [s EXCEPT !.roll = [@ EXCEPT ![i][msg.note] =
                                   PaintRow(@, last[1], note_off_end_time, last[2])],
                      !.register_note = [@ EXCEPT ![msg.note] = Inactive]]

\* The body of "for msg in channel" for one message of channel i.
PassStep(s, i, msg) ==
    LET s1 == [s EXCEPT !.volume = VolumeAfter(@, msg)]
        s2 == IF msg.type = "program_change"
              THEN [s1 EXCEPT !.register_timbre = [@ EXCEPT ![i] = msg.program]]
              ELSE s1
        s3 == IF msg.type = "note_on" THEN NoteOn(s2, i, msg) ELSE s2
        s4 == IF msg.type = "note_off" THEN NoteOff(s3, i, msg) ELSE s3
    IN IF s4.err # "none" THEN s4
       ELSE [s4 EXCEPT !.time_counter = @ + msg.time]

\* register_note[idx] = -1, the last statement of the closing loop's body
ClearSlot(rn, i) == [rn EXCEPT ![i] = Inactive]

\* data of "for key, data in enumerate(register_note)" at the iteration for key:
\* the slot as the iterations before it left it, each of which ended by
\* clearing slot i.
DataAt(rn, i, key) == IF key > 0 THEN ClearSlot(rn, i)[key] ELSE rn[key]

\* if data != -1: roll[idx, key, data[0]:] = data[1]
CloseKey(row, data) ==
    IF data # Inactive THEN PaintRowToEnd(row, data[1], data[2]) ELSE row

\* for key, data in enumerate(register_note): ... for channel i.  Iteration key
\* writes row key of the channel only, and slot i of the register.
CloseNotes(r, rn, i) ==
    [roll |-> [r EXCEPT ![i] =
                  [key \in 0..(NumNotes - 1) |-> CloseKey(@[key], DataAt(rn, i, key))]],
     register_note |-> ClearSlot(rn, i)]

(***************************************************************************)
(* get_roll as a whole: the passes over the channels, one after the other. *)
(***************************************************************************)
\* for msg in channel, from the k-th message on; an exception ends it
RECURSIVE RunMsgs(_, _, _, _)
RunMsgs(s, i, msgs, k) ==
    IF k > Len(msgs) \/ s.err # "none" THEN s
    ELSE RunMsgs(PassStep(s, i, msgs[k]), i, msgs, k + 1)

\* the body of "for idx, channel in enumerate(events)" for channel i
RunChannel(s, i, msgs) ==
    LET s1 == RunMsgs([s EXCEPT !.time_counter = 0, !.volume = InitVolume], i, msgs, 1)
        c == CloseNotes(s1.roll, s1.register_note, i)
    IN IF s1.err # "none" THEN s1
       ELSE [s1 EXCEPT !.roll = c.roll, !.register_note = c.register_note]

RECURSIVE RunChannels(_, _, _)
RunChannels(s, evs, i) ==
    IF i >= Len(evs) \/ s.err # "none" THEN s
    ELSE RunChannels(RunChannel(s, i, evs[i + 1]), evs, i + 1)

\* get_roll(events) of an object whose ranges are ir and nr
GetRoll(evs, ir, nr) ==
    RunChannels(PassState(ZeroRoll(Len(evs), GetTotalTicks(evs)),
                          [p \in 0..(NumNotes - 1) |-> Inactive],
                          [c \in 0..(Len(evs) - 1) |-> 1], 0, 0, ir, nr),
                evs, 0)

(***************************************************************************)
(* The constructor, step by step.                                          *)
(***************************************************************************)
\* The file as mido read it, and the fields __init__ sets before get_events.
InitOn(files) ==
    /\ tracks \in files
    /\ ticks_per_beat \in TicksPerBeatValues
    /\ pc = "get_events"
    /\ err = "none"
    /\ meta = <<>>
    /\ events = <<>>
    /\ nch = 0
    /\ roll = <<>>
    /\ register_note = <<>>
    /\ register_timbre = <<>>
    /\ idx = 0
    /\ mi = 0
    /\ time_counter = 0
    /\ volume = 0
    /\ intensity_range = <<100, 0>>
    /\ note_range = <<127, 0>>
    /\ length_ticks = 0
    /\ length_seconds = <<0, 1>>
    /\ ticks_per_sec = <<0, 1>>

Init == InitOn(Files)

InitPass == InitOn(PassFiles)

InitEvents == InitOn(EventFiles)

InitRanges == InitOn(RangeFiles)

InitPaint == InitOn(PaintFiles)

\* self.events, self.nch = self.get_events(verbose)
GetEvents ==
    /\ pc = "get_events"
    /\ events' = GetEventsResult(tracks)
    /\ nch' = Len(events')
    /\ meta' = MetaOf(Flatten(tracks), meta)
    /\ pc' = "get_roll"
    /\ UNCHANGED <<tracks, ticks_per_beat, err, roll, register_note, register_timbre,
                   idx, mi, time_counter, volume, intensity_range, note_range,
                   length_ticks, length_seconds, ticks_per_sec>>

\* get_roll up to its loop over the channels
GetRollInit ==
    /\ pc = "get_roll"
    /\ roll' = ZeroRoll(nch, GetTotalTicks(events))
    /\ register_note' = [p \in 0..(NumNotes - 1) |-> Inactive]
    /\ register_timbre' = [c \in 0..(nch - 1) |-> 1]
    /\ idx' = 0
    /\ pc' = "channel"
    /\ UNCHANGED <<tracks, ticks_per_beat, err, meta, events, nch, mi, time_counter,
                   volume, intensity_range, note_range, length_ticks, length_seconds,
                   ticks_per_sec>>

\* for idx, channel in enumerate(events): time_counter = 0 ; volume = 100
ChannelStart ==
    /\ pc = "channel"
    /\ idx < Len(events)
    /\ time_counter' = 0
    /\ volume' = InitVolume
    /\ mi' = 1
    /\ pc' = "msg"
    /\ UNCHANGED <<tracks, ticks_per_beat, err, meta, events, nch, roll, register_note,
                   register_timbre, idx, intensity_range, note_range, length_ticks,
                   length_seconds, ticks_per_sec>>

\* for msg in channel: one message
HandleMsg ==
    /\ pc = "msg"
    /\ mi <= Len(events[idx + 1])
    /\ LET s == PassStep(PassState(roll, register_note, register_timbre, time_counter,
                                   volume, intensity_range, note_range),
                         idx, events[idx + 1][mi])
       IN /\ roll' = s.roll
          /\ register_note' = s.register_note
          /\ register_timbre' = s.register_timbre
          /\ time_counter' = s.time_counter
          /\ volume' = s.volume
          /\ intensity_range' = s.intensity_range
          /\ note_range' = s.note_range
          /\ err' = s.err
          /\ pc' = IF s.err = "none" THEN "msg" ELSE "error"
          /\ mi' = IF s.err = "none" THEN mi + 1 ELSE mi
    /\ UNCHANGED <<tracks, ticks_per_beat, meta, events, nch, idx, length_ticks,
                   length_seconds, ticks_per_sec>>

\* the channel is exhausted: close the notes left on, go to the next channel
CloseChannel ==
    /\ pc = "msg"
    /\ mi > Len(events[idx + 1])
    /\ LET c == CloseNotes(roll, register_note, idx)
       IN /\ roll' = c.roll
          /\ register_note' = c.register_note
    /\ idx' = idx + 1
    /\ pc' = "channel"
    /\ UNCHANGED <<tracks, ticks_per_beat, err, meta, events, nch, register_timbre, mi,
                   time_counter, volume, intensity_range, note_range, length_ticks,
                   length_seconds, ticks_per_sec>>

\* return roll ; self.roll = ...
GetRollReturn ==
    /\ pc = "channel"
    /\ idx >= Len(events)
    /\ pc' = "lengths"
    /\ UNCHANGED <<tracks, ticks_per_beat, err, meta, events, nch, roll, register_note,
                   register_timbre, idx, mi, time_counter, volume, intensity_range,
                   note_range, length_ticks, length_seconds, ticks_per_sec>>

\* mido.tick2second(tick, ticks_per_beat, tempo) = tick * tempo * 1e-6 / ticks_per_beat,
\* kept as the fraction <<tick * tempo, ticks_per_beat>> of microseconds.
Tick2Second(tick, tpb, tempo) == <<tick * tempo, tpb>>

\* self.length_ticks, self.length_seconds, self.ticks_per_sec (a fraction of ticks
\* per microsecond); dividing by a length of 0.0 seconds raises ZeroDivisionError.
Lengths ==
    /\ pc = "lengths"
    /\ length_ticks' = GetTotalTicks(events)
    /\ length_seconds' = Tick2Second(length_ticks', ticks_per_beat, GetTempo(meta))
    /\ IF length_seconds'[1] = 0
       THEN /\ err' = "ZeroDivisionError"
            /\ pc' = "error"
            /\ UNCHANGED ticks_per_sec
       ELSE /\ ticks_per_sec' = <<length_ticks' * length_seconds'[2], length_seconds'[1]>>
            /\ pc' = "done"
            /\ UNCHANGED err
    /\ UNCHANGED <<tracks, ticks_per_beat, meta, events, nch, roll, register_note,
                   register_timbre, idx, mi, time_counter, volume, intensity_range,
                   note_range>>

\* A call of get_roll(self.events) on the constructed object: the whole method,
\* with the ranges of the object as the constructor left them.
GetRollAgain ==
    /\ pc = "done"
    /\ LET s == GetRoll(events, intensity_range, note_range)
       IN /\ roll' = s.roll
          /\ register_note' = s.register_note
          /\ register_timbre' = s.register_timbre
          /\ time_counter' = s.time_counter
          /\ volume' = s.volume
          /\ intensity_range' = s.intensity_range
          /\ note_range' = s.note_range
          /\ err' = s.err
          /\ pc' = IF s.err = "none" THEN "again" ELSE "error"
    /\ idx' = Len(events)
    /\ mi' = IF events = <<>> THEN mi ELSE Len(events[Len(events)]) + 1
    /\ UNCHANGED <<tracks, ticks_per_beat, meta, events, nch, length_ticks,
                   length_seconds, ticks_per_sec>>

Next ==
    \/ GetEvents
    \/ GetRollInit
    \/ ChannelStart
    \/ HandleMsg
    \/ CloseChannel
    \/ GetRollReturn
    \/ Lengths
    \/ GetRollAgain

Spec == Init /\ [][Next]_vars

SpecPass == InitPass /\ [][Next]_vars

SpecEvents == InitEvents /\ [][Next]_vars

SpecRanges == InitRanges /\ [][Next]_vars

SpecPaint == InitPaint /\ [][Next]_vars

(***************************************************************************)
(* Positions of the constructor the properties speak about.                *)
(***************************************************************************)
\* a message of the current channel is about to be handled
AtMsg == pc = "msg" /\ mi <= Len(events[idx + 1])

\* the current channel's timeline is exhausted, its closing loop is next
AtClose == pc = "msg" /\ mi > Len(events[idx + 1])

\* get_roll has returned its roll
RollReturned == pc \in {"lengths", "done"} \/ (pc = "error" /\ err = "ZeroDivisionError")

Bins == IF nch = 0 THEN {} ELSE DOMAIN roll[0][0]

(***************************************************************************)
(* C1: when the pass over a channel begins (first and later channels       *)
(* alike), every slot of register_note is Inactive, time_counter is 0 and  *)
(* volume is 100.                                                          *)
(***************************************************************************)
C1_PassStartsReset ==
    (pc = "msg" /\ mi = 1) =>
        /\ \A p \in 0..(NumNotes - 1) : register_note[p] = Inactive
        /\ time_counter = 0
        /\ volume = 100

(***************************************************************************)
(* C2: a note_off for a pitch whose slot is Inactive is a no-op: no        *)
(* exception, no cell of the roll and no slot changes, and the pass goes   *)
(* on to the next message with time_counter advanced by the delta.         *)
(***************************************************************************)
C2_UnmatchedNoteOffIsNoOp ==
    [][(/\ AtMsg
        /\ events[idx + 1][mi].type = "note_off"
        /\ register_note[events[idx + 1][mi].note] = Inactive)
       => (/\ err' = "none"
           /\ pc' = "msg"
           /\ mi' = mi + 1
           /\ roll' = roll
           /\ register_note' = register_note
           /\ time_counter' = time_counter + events[idx + 1][mi].time)]_vars

(***************************************************************************)
(* C3: a slot p that is Active(end_bin, intensity) when the timeline of    *)
(* channel c is exhausted is painted: every cell roll[c][p][b] from        *)
(* end_bin to the last column holds intensity, for every c and p, p = c    *)
(* included.  (No later pass writes row c, so the cells after the closing  *)
(* loop are those of the final roll.)                                      *)
(***************************************************************************)
C3_UnterminatedNoteSustains ==
    [][AtClose =>
        \A p \in 0..(NumNotes - 1) :
            register_note[p] # Inactive =>
                \A b \in Bins :
                    b >= register_note[p][1] => roll'[idx][p][b] = register_note[p][2]]_vars

(***************************************************************************)
(* C4: the row of channel c depends only on the number of channels, on     *)
(* total_ticks and on the timeline of c.  Stated against the input that    *)
(* agrees with the file on these three and whose other channels hold one   *)
(* program_change spanning total_ticks: both give the same row c.          *)
(***************************************************************************)
QuietOthers(evs, c) ==
    [j \in 1..Len(evs) |->
        IF j = c + 1 THEN evs[j]
        ELSE <<[type |-> "program_change", channel |-> evs[j][1].channel,
                program |-> 0, time |-> GetTotalTicks(evs)]>>]

\* C4: row c of the roll is the row c of the run whose other channels are quiet
C4_RowsIndependent ==
    RollReturned =>
        \A c \in 0..(nch - 1) :
            LET other == GetRoll(QuietOthers(events, c), <<100, 0>>, <<127, 0>>)
            IN other.err = "none" => other.roll[c] = roll[c]

(***************************************************************************)
(* C5: a file none of whose messages carries a channel is constructed      *)
(* without an exception: nch is 0, the roll has no row, and the lengths    *)
(* are set.                                                                *)
(***************************************************************************)
C5_EmptyPerformanceConstructs ==
    (pc \in {"done", "error"} /\ nch = 0) =>
        /\ pc = "done"
        /\ err = "none"
        /\ roll = <<>>

(***************************************************************************)
(* What a timeline says by itself: the cumulative time, the bin and the    *)
(* volume at its j-th message, and the note events of a pitch.             *)
(***************************************************************************)
RECURSIVE TimeUpTo(_, _)
TimeUpTo(msgs, j) == IF j = 0 THEN 0 ELSE TimeUpTo(msgs, j - 1) + msgs[j].time

\* the bin of the cumulative time up to and including message j
BinOf(msgs, j) == TimeUpTo(msgs, j) \div 10

\* the volume in force when message j is handled
RECURSIVE VolumeAt(_, _)
VolumeAt(msgs, j) ==
    IF j = 1 THEN 100 ELSE VolumeAfter(VolumeAt(msgs, j - 1), msgs[j - 1])

NoteEvents(msgs, p) ==
    {j \in 1..Len(msgs) : msgs[j].type \in {"note_on", "note_off"} /\ msgs[j].note = p}

Least(S) == CHOOSE x \in S : \A y \in S : x <= y
Greatest(S) == CHOOSE x \in S : \A y \in S : y <= x

\* the next (previous) note event of pitch p after (before) message j, or 0
NextNote(msgs, p, j) ==
    LET later == {j2 \in NoteEvents(msgs, p) : j2 > j}
    IN IF later = {} THEN 0 ELSE Least(later)
PrevNote(msgs, p, j) ==
    LET earlier == {j0 \in NoteEvents(msgs, p) : j0 < j}
    IN IF earlier = {} THEN 0 ELSE Greatest(earlier)

\* The channels before c with a note event of pitch p.
Sources(c, p) == {c0 \in 0..(c - 1) : NoteEvents(events[c0 + 1], p) # {}}

\* Slot p is Active when the pass over channel c begins: the last channel before
\* c with a note event of p ended it by a note_on, and no closing loop since
\* (each clears the slot of its own index) cleared slot p.
StartActive(c, p) ==
    /\ Sources(c, p) # {}
    /\ LET c0 == Greatest(Sources(c, p))
           msgs == events[c0 + 1]
       IN /\ msgs[Greatest(NoteEvents(msgs, p))].type = "note_on"
          /\ p \notin c0..(c - 1)

\* Slot p is Active when message j of channel c is handled.
ActiveAt(c, p, j) ==
    LET j0 == PrevNote(events[c + 1], p, j)
    IN IF j0 = 0 THEN StartActive(c, p) ELSE events[c + 1][j0].type = "note_on"

\* The note_on messages of channel c handled while their slot is Inactive and
\* followed, as the next note event of their pitch, by a note_off.
OnOffNotes(c) ==
    {j \in 1..Len(events[c + 1]) :
        LET msgs == events[c + 1]
        IN /\ msgs[j].type = "note_on"
           /\ ~ActiveAt(c, msgs[j].note, j)
           /\ NextNote(msgs, msgs[j].note, j) # 0
           /\ msgs[NextNote(msgs, msgs[j].note, j)].type = "note_off"}

\* Bin b lies in the segment of the note_on j of channel c up to its note_off.
InOnOff(c, j, b) ==
    LET msgs == events[c + 1]
    IN BinOf(msgs, j) <= b /\ b < BinOf(msgs, NextNote(msgs, msgs[j].note, j))

(***************************************************************************)
(* C6, first part: a note_on of pitch p and velocity k handled at          *)
(* cumulative time t1 under volume v while slot p is Inactive, whose next  *)
(* note event of p is a note_off at t2, leaves (v*k)//127 in the final     *)
(* roll[c][p][b] for t1//sr <= b < t2//sr, whatever the volume did in      *)
(* between.                                                                *)
(***************************************************************************)
C6_SegmentPainted ==
    RollReturned =>
        \A c \in 0..(nch - 1) : \A j \in OnOffNotes(c) : \A b \in Bins :
            LET msgs == events[c + 1]
            IN InOnOff(c, j, b) =>
                roll[c][msgs[j].note][b] = (VolumeAt(msgs, j) * msgs[j].velocity) \div 127

(***************************************************************************)
(* C6 as claimed: the first part, and every cell of row c outside these    *)
(* note_on .. note_off segments is 0.                                      *)
(***************************************************************************)
C6_OnlyOnOffSegments ==
    /\ C6_SegmentPainted
    /\ RollReturned =>
            \A c \in 0..(nch - 1) : \A p \in 0..(NumNotes - 1) : \A b \in Bins :
                (~\E j \in OnOffNotes(c) : events[c + 1][j].note = p /\ InOnOff(c, j, b))
                    => roll[c][p][b] = 0

(***************************************************************************)
(* C6 as amended: the first part, and every cell of row c is 0 outside the *)
(* segments the pass can paint: from the bin of a note_on of the pitch to  *)
(* the bin of the next note event of the pitch (a note_off or a            *)
(* re-triggering note_on) or, without one, to the last column; and, for a  *)
(* slot still Active from an earlier channel, from its end_bin to the bin  *)
(* of the channel's first note event of the pitch or to the last column.   *)
(***************************************************************************)
\* the bin at which the segment opened by note event j of pitch p ends
SegmentEnd(msgs, p, j) ==
    IF NextNote(msgs, p, j) = 0 THEN Cardinality(Bins) ELSE BinOf(msgs, NextNote(msgs, p, j))

\* the end_bin of the slot p that the channels before c left Active
LeftBin(c, p) ==
    LET msgs == events[Greatest(Sources(c, p)) + 1]
    IN BinOf(msgs, Greatest(NoteEvents(msgs, p)))

Covered(c, p, b) ==
    \/ \E j \in NoteEvents(events[c + 1], p) :
          /\ events[c + 1][j].type = "note_on"
          /\ BinOf(events[c + 1], j) <= b
          /\ b < SegmentEnd(events[c + 1], p, j)
    \/ /\ StartActive(c, p)
       /\ LeftBin(c, p) <= b
       /\ b < SegmentEnd(events[c + 1], p, 0)

\* C6 (amended): the on .. off segments hold their intensity, the rest of a row
\* is 0 outside the segments of the pass
C6_SegmentsOfThePass ==
    /\ C6_SegmentPainted
    /\ RollReturned =>
            \A c \in 0..(nch - 1) : \A p \in 0..(NumNotes - 1) : \A b \in Bins :
                ~Covered(c, p, b) => roll[c][p][b] = 0

\* a note_on .. note_off segment of at least one bin, painted with the intensity
\* of the note_on although the volume changed between the two
C6_Witness ==
    /\ pc = "done"
    /\ nch >= 1
    /\ \E j \in OnOffNotes(0) :
          LET msgs == events[1]
              j2 == NextNote(msgs, msgs[j].note, j)
          IN /\ BinOf(msgs, j) < BinOf(msgs, j2)
             /\ VolumeAt(msgs, j) # VolumeAt(msgs, j2)
             /\ roll[0][msgs[j].note][BinOf(msgs, j)] = 50

(***************************************************************************)
(* C7: a note_on of pitch p whose previous note event of p in the channel  *)
(* is a note_on too (bins e1 <= e2, intensities i1, i2) paints             *)
(* roll[c][p][e1..e2) = i1 and nothing else, and leaves the slot           *)
(* Active(e2, i2); and whatever a slot Active(e, i) paints later, at a     *)
(* note event of p or when the channel is closed, starts at bin e with     *)
(* value i: the segments meet at e2, with no gap and no overlap.           *)
(***************************************************************************)
C7_RetriggerStep ==
    LET msgs == events[idx + 1]
        p == msgs[mi].note
        j1 == PrevNote(msgs, p, mi)
        e1 == BinOf(msgs, j1)
        i1 == (VolumeAt(msgs, j1) * msgs[j1].velocity) \div 127
        e2 == BinOf(msgs, mi)
        i2 == (VolumeAt(msgs, mi) * msgs[mi].velocity) \div 127
    IN (/\ AtMsg
        /\ msgs[mi].type = "note_on"
        /\ j1 # 0
        /\ msgs[j1].type = "note_on")
       => (/\ e1 <= e2
           /\ \A b \in Bins :
                 roll'[idx][p][b] = IF e1 <= b /\ b < e2 THEN i1 ELSE roll[idx][p][b]
           /\ \A c \in 0..(nch - 1) : \A q \in 0..(NumNotes - 1) :
                 (c # idx \/ q # p) => roll'[c][q] = roll[c][q]
           /\ register_note'[p] = <<e2, i2>>)

C7_SegmentStart ==
    (AtMsg \/ AtClose) =>
        \A p \in 0..(NumNotes - 1) : \A b \in Bins :
            LET reg == register_note[p]
                ends == AtMsg /\ events[idx + 1][mi].type \in {"note_on", "note_off"}
                              /\ events[idx + 1][mi].note = p
            IN reg # Inactive =>
                /\ roll'[idx][p][b] # roll[idx][p][b] =>
                        (b >= reg[1] /\ roll'[idx][p][b] = reg[2])
                /\ (ends /\ reg[1] <= b /\ b < BinOf(events[idx + 1], mi)) =>
                        roll'[idx][p][b] = reg[2]

\* The step of C7: a re-trigger paints [e1, e2) with the old intensity and the
\* slot's next segment, where one is painted, starts at e2 with the new one
C7_Retrigger == [][C7_RetriggerStep /\ C7_SegmentStart]_vars

\* note_on(60, velocity 64, delta 0) then note_on(60, velocity 127, delta 15):
\* bin 0 holds the first intensity, the slot holds the second from bin 1 on
C7_Witness ==
    /\ pc = "msg"
    /\ mi = 3
    /\ events[1][1].type = "note_on" /\ events[1][1].velocity = 64
    /\ events[1][2].type = "note_on" /\ events[1][2].velocity = 127
    /\ roll[0][60][0] = 50
    /\ register_note[60] = <<1, 100>>

\* C7: in the roll get_roll returns, two consecutive note_on of pitch p in
\* channel c leave two adjacent segments: [e1, e2) holds i1 and [e2, e3) holds
\* i2, e3 the bin of the next note event of p or the number of columns.
C7_TwoAdjacentSegments ==
    RollReturned =>
        \A c \in 0..(nch - 1) : \A j \in 1..Len(events[c + 1]) :
            LET msgs == events[c + 1]
                p == msgs[j].note
                j1 == PrevNote(msgs, p, j)
                e1 == BinOf(msgs, j1)
                i1 == (VolumeAt(msgs, j1) * msgs[j1].velocity) \div 127
                e2 == BinOf(msgs, j)
                i2 == (VolumeAt(msgs, j) * msgs[j].velocity) \div 127
            IN (/\ msgs[j].type = "note_on"
                /\ j1 # 0
                /\ msgs[j1].type = "note_on")
               => \A b \in Bins :
                     /\ (e1 <= b /\ b < e2) => roll[c][p][b] = i1
                     /\ (e2 <= b /\ b < SegmentEnd(msgs, p, j)) => roll[c][p][b] = i2

(***************************************************************************)
(* C8: the roll has nch rows, one per channel with a message (not 16),     *)
(* 128 pitch rows per channel and total_ticks // sr bins, total_ticks the  *)
(* greatest sum of delta ticks of a channel.                               *)
(***************************************************************************)
AllMsgs == Flatten(tracks)

UsedChannels ==
    {AllMsgs[j].channel : j \in {k \in 1..Len(AllMsgs) : HasChannel(AllMsgs[k])}}

\* the sum of the delta ticks of the messages of channel ch
RECURSIVE TicksOf(_, _)
TicksOf(ch, j) ==
    IF j = 0 THEN 0
    ELSE TicksOf(ch, j - 1)
            + (IF HasChannel(AllMsgs[j]) /\ AllMsgs[j].channel = ch THEN AllMsgs[j].time ELSE 0)

TotalTicks ==
    IF UsedChannels = {} THEN 0
    ELSE Greatest({TicksOf(ch, Len(AllMsgs)) : ch \in UsedChannels})

RollAllocated == pc \notin {"get_events", "get_roll"}

\* C8: the roll is nch x 128 x (total_ticks // sr)
C8_RollShape ==
    RollAllocated =>
        LET bins == 0..((TotalTicks \div 10) - 1)
        IN /\ nch = Cardinality(UsedChannels)
           /\ DOMAIN roll = 0..(nch - 1)
           /\ \A c \in 0..(nch - 1) :
                 /\ DOMAIN roll[c] = 0..127
                 /\ \A p \in 0..127 : DOMAIN roll[c][p] = bins

\* two channels, the first of them the longer one, and a roll with columns
C8_Witness ==
    /\ pc = "done"
    /\ nch = 2
    /\ SumTime(events[1]) > SumTime(events[2])
    /\ SumTime(events[2]) > 0
    /\ Cardinality(DOMAIN roll[1][60]) = 3

(***************************************************************************)
(* C9: in a pass, a control_change 11 with a value below 127 sets volume   *)
(* to 0 and one with value 127 leaves it as it is; while volume is 0 every *)
(* note_on registers intensity 0 whatever its velocity, and volume stays 0 *)
(* until a control_change 7.                                               *)
(***************************************************************************)
C9_ExpressionStep ==
    LET msg == events[idx + 1][mi]
    IN AtMsg =>
        /\ (IsCC(msg, 11) /\ msg.value < 127) => volume' = 0
        /\ (IsCC(msg, 11) /\ msg.value = 127) => volume' = volume
        /\ (msg.type = "note_on" /\ volume = 0) => register_note'[msg.note][2] = 0
        /\ (volume = 0 /\ ~IsCC(msg, 7)) => volume' = 0

\* C9: control_change 11 zeroes or keeps the volume; volume 0 gives intensity 0
\* until a control_change 7
C9_Expression == [][C9_ExpressionStep]_vars

\* control_change 11 with value 100, then a note_on of velocity 127: intensity 0
C9_Witness ==
    /\ pc = "msg"
    /\ mi = 3
    /\ IsCC(events[1][1], 11) /\ events[1][1].value = 100
    /\ events[1][2].type = "note_on" /\ events[1][2].velocity = 127
    /\ volume = 0
    /\ register_note[60] = <<BinOf(events[1], 2), 0>>

(***************************************************************************)
(* C10: get_events returns the timelines of the channels that received a   *)
(* message, in increasing order of channel number, numbered from 0 without *)
(* gaps, and their count: a channel without messages has no timeline.      *)
(***************************************************************************)
\* the i-th channel with a message, in increasing order, from 1
NthChannel(i) ==
    CHOOSE ch \in UsedChannels : Cardinality({x \in UsedChannels : x < ch}) = i - 1

\* C10: events holds the non-empty channels in ascending order, row i is the
\* i-th of them
C10_DenseRenumbering ==
    pc # "get_events" =>
        /\ nch = Cardinality(UsedChannels)
        /\ Len(events) = nch
        /\ \A i \in 1..nch :
              /\ events[i] # <<>>
              /\ events[i] = ChannelList(tracks, NthChannel(i))

\* messages on channel 9 only: one timeline, at index 0
C10_Witness ==
    /\ pc = "done"
    /\ UsedChannels = {9}
    /\ nch = 1
    /\ events[1][1].channel = 9

(***************************************************************************)
(* C11: the timeline of a channel is its messages of the first track in    *)
(* track order, then those of the second track, and so on: the order of    *)
(* two messages of a channel does not depend on their delta ticks, and no  *)
(* message is lost or duplicated.                                          *)
(***************************************************************************)
\* the messages of channel ch in track t, in track order
OfTrack(t, ch) ==
    SelectSeq(tracks[t], LAMBDA msg : HasChannel(msg) /\ msg.channel = ch)

\* the messages of channel ch of the tracks 1..t, track after track
RECURSIVE TrackAfterTrack(_, _)
TrackAfterTrack(t, ch) ==
    IF t = 0 THEN <<>> ELSE TrackAfterTrack(t - 1, ch) \o OfTrack(t, ch)

\* the number of messages of the file that carry a channel
ChannelMsgCount == Cardinality({k \in 1..Len(AllMsgs) : HasChannel(AllMsgs[k])})

RECURSIVE SumLen(_)
SumLen(lists) == IF lists = <<>> THEN 0 ELSE Len(Head(lists)) + SumLen(Tail(lists))

\* C11: events[i] is the track-after-track list of the i-th channel, and the
\* timelines hold as many messages as the file has messages with a channel
C11_PerTrackAppend ==
    pc # "get_events" =>
        /\ \A i \in 1..nch : events[i] = TrackAfterTrack(Len(tracks), NthChannel(i))
        /\ SumLen(events) = ChannelMsgCount

\* a channel with a message of delta 5 in the first track and one of delta 0 in
\* the second: the timeline keeps the first track's message first
C11_Witness ==
    /\ pc = "done"
    /\ nch = 1
    /\ Len(events[1]) = 2
    /\ OfTrack(1, events[1][1].channel) = <<events[1][1]>>
    /\ OfTrack(2, events[1][1].channel) = <<events[1][2]>>
    /\ events[1][1].time = 5
    /\ events[1][2].time = 0

(***************************************************************************)
(* C12: once get_roll has returned, intensity_range and note_range are     *)
(* ordered (lower end <= upper end) if the file has a note_on, and are the *)
(* initial [100, 0] and [127, 0] if it has none.                           *)
(***************************************************************************)
\* the note_on messages of the file
NoteOnEvents == {k \in 1..Len(AllMsgs) : AllMsgs[k].type = "note_on"}

\* C12: ordered ranges with a note_on, the initial ranges without
C12_RangesOrdered ==
    RollReturned =>
        IF NoteOnEvents # {}
        THEN /\ intensity_range[1] <= intensity_range[2]
             /\ note_range[1] <= note_range[2]
        ELSE /\ intensity_range = <<100, 0>>
             /\ note_range = <<127, 0>>

\* note_on of two pitches and two intensities: both ranges are proper intervals
C12_Witness ==
    /\ pc = "done"
    /\ Cardinality(NoteOnEvents) = 2
    /\ intensity_range[1] < intensity_range[2]
    /\ note_range[1] < note_range[2]

(***************************************************************************)
(* C13: get_tempo returns the tempo of the last set_tempo message of the   *)
(* file in traversal order (track after track), and 500000 when the file   *)
(* has none, where the lookup fails and is caught.  The constructor's      *)
(* length in seconds is computed with that tempo.                          *)
(***************************************************************************)
SetTempoEvents == {k \in 1..Len(AllMsgs) : AllMsgs[k].type = "set_tempo"}

LastTempo ==
    IF SetTempoEvents = {} THEN 500000 ELSE AllMsgs[Greatest(SetTempoEvents)].tempo

\* C13: the tempo get_tempo returns, and the one the length was computed with
C13_TempoLastWins ==
    /\ pc # "get_events" => GetTempo(meta) = LastTempo
    /\ pc = "done" => length_seconds = <<length_ticks * LastTempo, ticks_per_beat>>

\* set_tempo 400000 in the first track, 250000 in the second, and a length
\* computed with 250000
C13_Witness ==
    /\ pc = "done"
    /\ Len(tracks) = 2
    /\ \E j \in 1..Len(tracks[1]) :
          tracks[1][j].type = "set_tempo" /\ tracks[1][j].tempo = 400000
    /\ \E j \in 1..Len(tracks[2]) :
          tracks[2][j].type = "set_tempo" /\ tracks[2][j].tempo = 250000
    /\ length_ticks > 0
    /\ length_seconds[1] = length_ticks * 250000

\* no set_tempo in the file: the default tempo
C13_WitnessDefault ==
    /\ pc = "done"
    /\ SetTempoEvents = {}
    /\ length_seconds[1] = length_ticks * 500000

(***************************************************************************)
(* C14: get_roll called again on the timelines of the same object returns  *)
(* a roll equal, cell for cell, to the one of the first call, and leaves   *)
(* intensity_range and note_range as the first call left them.             *)
(***************************************************************************)
C14_SecondCallStep ==
    (pc = "done" /\ pc' # "done") =>
        /\ pc' = "again"
        /\ roll' = roll
        /\ intensity_range' = intensity_range
        /\ note_range' = note_range

\* C14: the second call of get_roll repeats the roll and keeps the ranges
C14_Idempotent == [][C14_SecondCallStep]_vars

\* a second call on two channels, with painted cells and two pitches
C14_Witness ==
    /\ pc = "again"
    /\ nch = 2
    /\ note_range[1] < note_range[2]
    /\ \E c \in 0..1 : \E p \in {1, 60} : \E b \in Bins : roll[c][p][b] # 0

(***************************************************************************)
(* C15: an unknown meta message is skipped by get_events: meta and the     *)
(* timelines are what they are for the file without its unknown meta       *)
(* messages, and meta has no key for them.                                 *)
(***************************************************************************)
WithoutUnknownMeta(trs) ==
    [t \in 1..Len(trs) |-> SelectSeq(trs[t], LAMBDA msg : msg.type # "unknown_meta")]

\* C15: unknown meta messages leave meta and the timelines as they are
C15_UnknownMetaSkipped ==
    pc # "get_events" =>
        /\ "unknown_meta" \notin DOMAIN meta
        /\ meta = MetaOf(Flatten(WithoutUnknownMeta(tracks)), <<>>)
        /\ events = GetEventsResult(WithoutUnknownMeta(tracks))

\* the part of C15 about the timelines
C15_TimelinesUnchanged ==
    pc # "get_events" => events = GetEventsResult(WithoutUnknownMeta(tracks))

(***************************************************************************)
(* C16: once get_roll has returned on a file with a note_on,               *)
(* intensity_range is [min, max] of (volume * velocity) // 127 over the    *)
(* note_on messages of all channels, volume being the one in force at the  *)
(* message, and note_range is [min, max] of their pitches; and the first   *)
(* note_on handled, of intensity i and pitch n, leaves the ranges [i, i]   *)
(* and [n, n], also for i = 100, i = 0, n = 127 and n = 0.                 *)
(***************************************************************************)
\* the note_on messages of the timelines, as <<channel index, position>>
TimelineNoteOns ==
    {x \in UNION {{<<c, j>> : j \in 1..Len(events[c + 1])} : c \in 0..(nch - 1)} :
        events[x[1] + 1][x[2]].type = "note_on"}

IntensityOfNoteOn(x) ==
    (VolumeAt(events[x[1] + 1], x[2]) * events[x[1] + 1][x[2]].velocity) \div 127

C16_RangesAreMinMax ==
    (RollReturned /\ TimelineNoteOns # {}) =>
        LET is == {IntensityOfNoteOn(x) : x \in TimelineNoteOns}
            ns == {events[x[1] + 1][x[2]].note : x \in TimelineNoteOns}
        IN /\ intensity_range = <<Least(is), Greatest(is)>>
           /\ note_range = <<Least(ns), Greatest(ns)>>

\* the message about to be handled is the first note_on of the call
AtFirstNoteOn ==
    /\ AtMsg
    /\ events[idx + 1][mi].type = "note_on"
    /\ \A x \in TimelineNoteOns : x[1] > idx \/ (x[1] = idx /\ x[2] >= mi)

C16_FirstNoteOnStep ==
    AtFirstNoteOn =>
        LET i == IntensityOfNoteOn(<<idx, mi>>)
            n == events[idx + 1][mi].note
        IN /\ intensity_range' = <<i, i>>
           /\ note_range' = <<n, n>>

\* C16: the ranges are the least and greatest intensity and pitch of the note_on
\* messages, and [i, i], [n, n] after the first of them
C16_Ranges == []C16_RangesAreMinMax /\ [][C16_FirstNoteOnStep]_vars

\* a single note_on, of pitch 127 and intensity 100: the lower ends, which start
\* at these values, end at these values too
C16_Witness ==
    /\ pc = "done"
    /\ Cardinality(TimelineNoteOns) = 1
    /\ intensity_range = <<100, 100>>
    /\ note_range = <<127, 127>>

\* a single note_on of pitch 0 and intensity 0, the initial upper ends
C16_WitnessZero ==
    /\ pc = "done"
    /\ Cardinality(TimelineNoteOns) = 1
    /\ intensity_range = <<0, 0>>
    /\ note_range = <<0, 0>>

\* note_on under two volumes: the range spans the two intensities
C16_WitnessVolume ==
    /\ pc = "done"
    /\ intensity_range = <<50, 100>>
    /\ \A x \in TimelineNoteOns : events[x[1] + 1][x[2]].velocity = 127

(***************************************************************************)
(* C17: in every pass volume stays within 0..100, and so does every        *)
(* intensity registered and every cell of the roll: no value wraps in the  *)
(* 8-bit signed cells.  Whatever value in 0..127 the next message carries, *)
(* the volume and the intensity it gives are within 0..100 too.            *)
(***************************************************************************)
C17_VolumeAndCellsInRange ==
    RollAllocated =>
        /\ volume \in 0..100
        /\ \A p \in 0..(NumNotes - 1) :
              register_note[p] # Inactive => register_note[p][2] \in 0..100
        /\ \A c \in 0..(nch - 1) : \A p \in 0..(NumNotes - 1) : \A b \in Bins :
              roll[c][p][b] \in 0..100
        /\ \A v \in 0..127 :
              /\ VolumeAfter(volume, [type |-> "control_change", control |-> 7,
                                      value |-> v]) \in 0..100
              /\ VolumeAfter(volume, [type |-> "control_change", control |-> 11,
                                      value |-> v]) \in 0..100
              /\ Intensity(volume, [velocity |-> v]) \in 0..100
              /\ Int8(Intensity(volume, [velocity |-> v])) = Intensity(volume, [velocity |-> v])

\* a control_change 7 of value 127 and a note_on of velocity 127: volume 100 and
\* a cell holding 100
C17_Witness ==
    /\ pc = "done"
    /\ volume = 100
    /\ \E j \in 1..Len(AllMsgs) : IsCC(AllMsgs[j], 7) /\ AllMsgs[j].value = 127
    /\ \E c \in 0..(nch - 1) : \E p \in {0, 60, 127} : \E b \in Bins : roll[c][p][b] = 100

(***************************************************************************)
(* C18: in a pass the bin of a message, (time_counter + delta) // sr, is   *)
(* at least the bin of the message before it and at most                   *)
(* total_ticks // sr; a paint writes bins [a, b) with 0 <= a and           *)
(* b <= total_ticks // sr, in the row of the channel of the pass only; the *)
(* segments painted for a pitch in a row do not overlap, and a note on and *)
(* off in the same bin paints no cell.                                     *)
(***************************************************************************)
\* the bin of the message about to be handled
BinOfNext == (time_counter + events[idx + 1][mi].time) \div 10

C18_BinStep ==
    AtMsg =>
        /\ time_counter \div 10 <= BinOfNext
        /\ BinOfNext <= TotalTicks \div 10
        /\ pc' = "msg" => time_counter' = time_counter + events[idx + 1][mi].time

\* An Active slot starts at a bin of the roll, and not before the bin of the
\* previous note event of its pitch in this pass, where the previous segment of
\* the pitch in this row, if there is one, ended.
C18_SlotBounds ==
    pc = "msg" =>
        \A p \in 0..(NumNotes - 1) :
            register_note[p] # Inactive =>
                /\ 0 <= register_note[p][1]
                /\ register_note[p][1] <= TotalTicks \div 10
                /\ LET j == PrevNote(events[idx + 1], p, mi)
                   IN j # 0 => BinOf(events[idx + 1], j) <= register_note[p][1]

\* A step of a pass changes cells of the row of its channel only, and only cells
\* of the segment that starts at the slot's bin and ends before the message's.
C18_PaintStep ==
    (AtMsg \/ AtClose) =>
        /\ \A c \in 0..(nch - 1) : c # idx => roll'[c] = roll[c]
        /\ \A p \in 0..(NumNotes - 1) : \A b \in Bins :
              roll'[idx][p][b] # roll[idx][p][b] =>
                  /\ register_note[p] # Inactive
                  /\ register_note[p][1] <= b
                  /\ AtMsg => (events[idx + 1][mi].note = p /\ b < BinOfNext)

\* A note event in the bin where the slot of its pitch starts paints no cell.
C18_SameBinStep ==
    (/\ AtMsg
     /\ events[idx + 1][mi].type \in {"note_on", "note_off"}
     /\ register_note[events[idx + 1][mi].note] # Inactive
     /\ register_note[events[idx + 1][mi].note][1] >= BinOfNext)
    => roll' = roll

\* C18: bins do not decrease and stay within the roll, paints stay within the
\* row and the columns, segments of a pitch do not overlap
C18_PaintsInBounds ==
    []C18_SlotBounds /\ [][C18_BinStep /\ C18_PaintStep /\ C18_SameBinStep]_vars

\* in the second channel a note of pitch 60 on and off in bin 0 of a roll with
\* a column: its row stays empty
C18_Witness ==
    /\ pc = "done"
    /\ nch = 2
    /\ Len(events[2]) = 2
    /\ events[2][1].type = "note_on" /\ events[2][1].note = 60
    /\ events[2][2].type = "note_off" /\ events[2][2].note = 60
    /\ BinOf(events[2], 1) = BinOf(events[2], 2)
    /\ Bins # {}
    /\ \A b \in Bins : roll[1][60][b] = 0

====
